---- MODULE Spec2Model ----
(***************************************************************************)
(* Model of the agent-server HTTP gateway (src/api/run.ts, the second,     *)
(* current copy of the module: lines 578-1577).                            *)
(*                                                                         *)
(* One request is one invocation of the function returned by               *)
(* withMiddleware.  JavaScript runs each invocation to its next `await`    *)
(* without interruption, so one action of this model is one such segment:  *)
(*   Arrive      helmet + cors                (up to the await of the CORS *)
(*                                             promise)                    *)
(*   RateStage   rateLimiter.consume          (up to its await)            *)
(*   the auth check, the router and the route handler up to its first      *)
(*               await (the handlers of /agents never await)               *)
(*   GenResolve / GenReject   the rest of a chat handler after `await run` *)
(* Strings that the code inspects are sequences of tokens; the token "B"   *)
(* stands for the seven characters of 'Bearer '.                           *)
(***************************************************************************)
EXTENDS Integers, Sequences, FiniteSets, TLC

\* ------------------------------------------------------------------ bounds
MaxInFlight == 1      \* request slots that can be in flight at once
MaxRequests == 3      \* requests accepted in one behaviour of Spec
MaxOver == 1          \* requests a client sends beyond the points of its window
MaxHistory == 3       \* turns in the history a client sends along
MaxListed == 4        \* requests accepted in one behaviour of SpecList
MaxAttempts == 3      \* largest maxAttempts a caller of pollRunCompletion passes

\* ------------------------------------------------------- program constants
points == 100         \* RateLimiterMemory points
duration == 60        \* RateLimiterMemory duration (seconds)

\* --------------------------------------------------------------- JS values
Undefined == <<"undefined_">>     \* the JS value undefined (never a string)
Secret == <<"s">>                 \* the value of the configured API key
Wrong == <<"w">>                  \* some other credential
Default == <<"default">>          \* the literal 'default' rate-limit key

\* JS truthiness of a string-or-undefined value
Truthy(v) == v /= Undefined /\ v /= <<>>

\* a || b
OrElse(a, b) == IF Truthy(a) THEN a ELSE b

\* String.prototype.replace('Bearer ', ''): drop the first occurrence
RECURSIVE ReplaceBearer(_)
ReplaceBearer(s) ==
  IF s = <<>> THEN <<>>
  ELSE IF Head(s) = "B" THEN Tail(s)
  ELSE <<Head(s)>> \o ReplaceBearer(Tail(s))

\* String.prototype.split(','): the pieces between the commas, in order; the
\* empty string gives one empty piece
RECURSIVE split(_)
split(s) ==
  IF \A n \in 1..Len(s) : s[n] /= ","
  THEN <<s>>
  ELSE LET c == CHOOSE n \in 1..Len(s) : s[n] = "," /\ \A m \in 1..(n - 1) : s[m] /= ","
       IN <<SubSeq(s, 1, c - 1)>> \o split(SubSeq(s, c + 1, Len(s)))

\* ------------------------------------------------------------------- CORS
Wildcard == <<"*">>
\* corsOptions.origin: process.env.ALLOWED_ORIGINS?.split(',') || '*' (an
\* array is truthy, the empty one too)
corsOrigin(allowedOrigins) ==
  IF allowedOrigins = Undefined
  THEN [kind |-> "string", value |-> Wildcard, list |-> <<>>]
  ELSE [kind |-> "array", value |-> Undefined, list |-> split(allowedOrigins)]

\* isOriginAllowed of the cors package for an array of strings
isOriginAllowed(origin, allowed) ==
  \E n \in 1..Len(allowed) : origin = allowed[n]

\* configureOrigin of the cors package: the Access-Control-Allow-Origin header
\* it sets, Undefined when it sets none
AllowOrigin(origin, option) ==
  IF option.kind = "string" THEN option.value
  ELSE IF isOriginAllowed(origin, option.list) THEN origin
  ELSE Undefined

VARIABLES
  API_KEY,       \* process.env.API_KEY
  ALLOWED_ORIGINS, \* process.env.ALLOWED_ORIGINS
  agents,        \* Map<string, Agent>: the runnable agents
  agentConfigs,  \* Map<string, AgentConfig>: entries in insertion order
  storage,       \* the rate limiter's memory storage, per key
  reqs,          \* the requests in flight, per slot
  served,        \* number of requests accepted so far
  admitted,      \* history: per key, requests admitted since the last Tick
  created,       \* history: the {id, body} of every 201 response of POST /agents,
                 \* numbered in the order of the responses
  poll           \* a call of pollRunCompletion: where it stands, its locals

vars == <<API_KEY, ALLOWED_ORIGINS, agents, agentConfigs, storage, reqs, served, admitted, created,
          poll>>

\* ------------------------------------------------------------ JSON values
Missing == "<missing>"            \* a key the JSON body does not have
MissingSeq == <<"<missing>">>     \* the same, for a key that holds an array
MissingHistory == << <<"<missing>">> >>  \* the same, for the array of turns
NotBoolean == "<string>"          \* a value of the wrong JSON type for stream

\* -------------------------------------------------- Map<string, V> (JS Map)
\* A JS Map keeps its entries in insertion order; set() on an existing key
\* replaces the value in place.
MapKeys(m) == {m[n].k : n \in 1..Len(m)}
MapHas(m, k) == k \in MapKeys(m)
MapGet(m, k) == m[CHOOSE n \in 1..Len(m) : m[n].k = k].v
\* MapSet of a map that starts over when it holds thirteen entries
MapSetStartOver(m, k, v) ==
  IF MapHas(m, k)
  THEN [n \in 1..Len(m) |-> IF m[n].k = k THEN [k |-> k, v |-> v] ELSE m[n]]
  ELSE IF Len(m) < 13 THEN Append(m, [k |-> k, v |-> v])
  ELSE <<[k |-> k, v |-> v]>>
MapSet(m, k, v) ==
  IF MapHas(m, k)
  THEN [n \in 1..Len(m) |-> IF m[n].k = k THEN [k |-> k, v |-> v] ELSE m[n]]
  ELSE Append(m, [k |-> k, v |-> v])
RECURSIVE MapSetAll(_, _)
MapSetAll(m, entries) ==
  IF entries = <<>> THEN m
  ELSE MapSetAll(MapSet(m, Head(entries).k, Head(entries).v), Tail(entries))

\* ------------------------------------------------------- validation schemas
\* z.string().min(1)
NonEmptyString(v) == v /= Missing /\ v /= ""

\* AgentCreateValid that does not look at the instructions
AgentCreateValidNameOnly(body) == NonEmptyString(body.name)

AgentCreateValid(body) ==
  NonEmptyString(body.name) /\ NonEmptyString(body.instructions)

\* AgentCreateSchema.parse: unknown keys stripped, defaults filled in
AgentCreateSchema(body) ==
  [name |-> body.name,
   instructions |-> body.instructions,
   model |-> IF body.model = Missing THEN "gpt-4o" ELSE body.model,
   tools |-> IF body.tools = MissingSeq THEN <<>> ELSE body.tools,
   handoffs |-> IF body.handoffs = MissingSeq THEN <<>> ELSE body.handoffs,
   output_format |-> Missing]

ChatValid(body) ==
  NonEmptyString(body.message) /\ body.stream \in {Missing, "true", "false"}

\* ChatSchema.parse
ChatSchema(body) ==
  [message |-> body.message,
   history |-> IF body.history = MissingHistory THEN <<>> ELSE body.history,
   stream |-> body.stream = "true"]

\* ---------------------------------------------------------- rate limiter
\* RateLimiterMemory({points, duration}).consume(key): a fixed window per key
\* that opens at the key's first consume and lasts `duration` seconds.  Every
\* consume adds a point, the rejected ones too; the call rejects when the
\* window then holds more than `points`.
NoRecord == [value |-> 0, expiresIn |-> 0]
\* Incrby that loses the points added to an open window
IncrbyLost(rec) ==
  IF rec.expiresIn > 0
  THEN rec
  ELSE [value |-> 1, expiresIn |-> duration]
Incrby(rec) ==
  IF rec.expiresIn > 0
  THEN [rec EXCEPT !.value = @ + 1]
  ELSE [value |-> 1, expiresIn |-> duration]
Consume(st, key) == [st EXCEPT ![key] = Incrby(st[key])]
\* Rejected with the comparison off by one
RejectedAtLimit(st, key) == Consume(st, key)[key].value >= points
Rejected(st, key) == Consume(st, key)[key].value > points

\* const key = (req.headers['x-forwarded-for'] as string) || 'default'
RateKey(rq) == IF Truthy(rq.xff) THEN rq.xff ELSE Default

\* ------------------------------------------------------ API key validation
\* req.headers.authorization?.replace('Bearer ', '') || req.headers['x-api-key']
ApiKeyOf(rq) ==
  OrElse(IF rq.authorization = Undefined THEN Undefined
         ELSE ReplaceBearer(rq.authorization),
         rq.xApiKey)

\* AuthOK without the comparison with the configured key
AuthOKAnyKey(rq, envKey) == Truthy(ApiKeyOf(rq))

\* AuthOK without the !apiKey test: the comparison alone
AuthOKCompareOnly(rq, envKey) == ApiKeyOf(rq) = envKey

\* the negation of (!apiKey || apiKey !== process.env.API_KEY)
AuthOK(rq, envKey) == Truthy(ApiKeyOf(rq)) /\ ApiKeyOf(rq) = envKey

\* validateEnvironment: the names among the required variables whose value is
\* falsy; it throws when there is one. Only API_KEY is state of this model, the
\* value of OPENAI_API_KEY is an argument.
validateEnvironment(openaiKey, envKey) ==
  LET env == [OPENAI_API_KEY |-> openaiKey, API_KEY |-> envKey]
  IN {key \in {"OPENAI_API_KEY", "API_KEY"} : ~Truthy(env[key])}

\* ------------------------------------------------------- built-in agents
\* An AgentConfig; a key the object literal does not set is Missing.
Config(name, instructions, model, tools, handoffs, output_format) ==
  [name |-> name, instructions |-> instructions, model |-> model,
   tools |-> tools, handoffs |-> handoffs, output_format |-> output_format]

\* An Agent of the SDK, by the options it was constructed with; the prompt
\* text of a built-in agent is opaque and stands as "prompt:<id>".
Agent(name, instructions, model, tools) ==
  [name |-> name, instructions |-> instructions, model |-> model, tools |-> tools]

\* An Agent constructed with handoffs and without tools; the agents it hands
\* off to are fresh instances, named here by their names.
HandoffAgent(name, instructions, model, handoffs) ==
  [name |-> name, instructions |-> instructions, model |-> model,
   tools |-> <<>>, handoffs |-> handoffs]

Entry(k, v) == [k |-> k, v |-> v]

\* the agentConfigs.set calls of initializeDefaultAgents, in their order
BuiltinConfigs ==
  <<
    Entry("weather", Config("Weather Assistant",
      "You are a weather specialist that helps users get weather information.",
      "gpt-4o", <<"get_weather">>, MissingSeq,
      Missing)),
    Entry("math", Config("Math Assistant",
      "You are a mathematics specialist that helps users with calculations.",
      "gpt-4o", <<"calculate">>, MissingSeq,
      Missing)),
    Entry("research", Config("Research Assistant",
      "You are a research specialist that helps users find files and documents.",
      "gpt-4o", <<"search_files">>, MissingSeq,
      Missing)),
    Entry("coordinator", Config("Coordinator",
      "You are a coordinator that routes requests to specialized agents.",
      "gpt-4o", MissingSeq, <<"weather", "math", "research">>,
      Missing)),
    Entry("composer-anthropology", Config("Composer Anthropology",
      "Focus op culturele structuren, symboliek, overgangsrituelen, gemeenschapsdynamiek.",
      "gpt-4o", <<"compose_ritual_element">>, MissingSeq,
      "JSON schema: {koan, activity, symbolism}")),
    Entry("composer-biology", Config("Composer Biology",
      "Focus op ecologische processen, cycli, wederkerigheid, groei/verval, natuurlijke ritmes.",
      "gpt-4o", <<"compose_ritual_element">>, MissingSeq,
      "JSON schema: {koan, activity, symbolism}")),
    Entry("composer-psychology", Config("Composer Psychology",
      "Focus op betekenisvorming, identiteit, gedrag, emotie, transformatie.",
      "gpt-4o", <<"compose_ritual_element">>, MissingSeq,
      "JSON schema: {koan, activity, symbolism}")),
    Entry("composer-economy", Config("Composer Economy",
      "Focus op waarde-uitwisseling, balans, geven/ontvangen, duurzaamheid.",
      "gpt-4o", <<"compose_ritual_element">>, MissingSeq,
      "JSON schema: {koan, activity, symbolism}")),
    Entry("composer-ergonomics", Config("Composer Ergonomics",
      "Focus op lichaam, beweging, aanraking, ademhaling, vorm, ruimte.",
      "gpt-4o", <<"compose_ritual_element">>, MissingSeq,
      "JSON schema: {koan, activity, symbolism}")),
    Entry("synthesizer", Config("Synthesizer",
      "Combineer diverse rituele perspectieven tot een samenhangend ritueel.",
      "gpt-4o", <<"synthesize_ritual">>, MissingSeq,
      "JSON schema: {koan, activity, activityDescription, themes}")),
    Entry("red-flag-checker", Config("RedFlagChecker",
      "Analyseer rituelen op ethische risicos: geweld, discriminatie, culturele toe-eigening.",
      "gpt-4o", <<"check_ethical_risks">>, MissingSeq,
      "JSON schema: {flagged, issues, suggestions}")),
    Entry("revisor", Config("Revisor",
      "Herformuleer rituelen om ethische issues op te lossen, behoud de kern.",
      "gpt-4o", <<"revise_ritual">>, MissingSeq,
      "JSON schema: {koan, activity, activityDescription, themes}")),
    Entry("ritual-workflow", Config("Ritual Workflow Coordinator",
      "Orkestrerst het volledige ritueel compositie proces met alle specialized agents.",
      "gpt-4o", MissingSeq, <<"composer-anthropology", "composer-biology", "composer-psychology", "composer-economy", "composer-ergonomics", "synthesizer", "red-flag-checker", "revisor">>,
      Missing))
  >>

\* the agents.set calls of initializeDefaultAgents, in their order
BuiltinAgents ==
  <<
    Entry("weather", Agent("Weather Assistant", "prompt:weather", "gpt-4o", <<"get_weather">>)),
    Entry("math", Agent("Math Assistant", "prompt:math", "gpt-4o", <<"calculate">>)),
    Entry("research", Agent("Research Assistant", "prompt:research", "gpt-4o", <<"search_files">>)),
    Entry("coordinator", HandoffAgent("Coordinator", "prompt:coordinator", "gpt-4o",
      <<"Weather Assistant", "Math Assistant", "Research Assistant">>)),
    Entry("composer-anthropology", Agent("Composer Anthropology", "prompt:composer-anthropology", "gpt-4o", <<"compose_ritual_element">>)),
    Entry("composer-biology", Agent("Composer Biology", "prompt:composer-biology", "gpt-4o", <<"compose_ritual_element">>)),
    Entry("composer-psychology", Agent("Composer Psychology", "prompt:composer-psychology", "gpt-4o", <<"compose_ritual_element">>)),
    Entry("composer-economy", Agent("Composer Economy", "prompt:composer-economy", "gpt-4o", <<"compose_ritual_element">>)),
    Entry("composer-ergonomics", Agent("Composer Ergonomics", "prompt:composer-ergonomics", "gpt-4o", <<"compose_ritual_element">>)),
    Entry("synthesizer", Agent("Synthesizer", "prompt:synthesizer", "gpt-4o", <<"synthesize_ritual">>)),
    Entry("red-flag-checker", Agent("RedFlagChecker", "prompt:red-flag-checker", "gpt-4o", <<"check_ethical_risks">>)),
    Entry("revisor", Agent("Revisor", "prompt:revisor", "gpt-4o", <<"revise_ritual">>)),
    Entry("ritual-workflow", HandoffAgent("Ritual Workflow Coordinator", "prompt:ritual-workflow", "gpt-4o",
      <<"Composer Anthropology", "Composer Biology", "Composer Psychology",
        "Composer Economy", "Composer Ergonomics", "Synthesizer",
        "RedFlagChecker", "Revisor">>))
  >>


\* initializeDefaultAgents that stops after the agents.set calls
initializeDefaultAgentsOnly(reg) ==
  [agents |-> MapSetAll(reg.agents, BuiltinAgents),
   agentConfigs |-> reg.agentConfigs]

\* initializeDefaultAgents(): thirteen agents.set, then thirteen agentConfigs.set
initializeDefaultAgents(reg) ==
  [agents |-> MapSetAll(reg.agents, BuiltinAgents),
   agentConfigs |-> MapSetAll(reg.agentConfigs, BuiltinConfigs)]

\* LazyInit that leaves the registry as it finds it
LazyInitNever(reg) == reg

\* if (agents.size === 0) initializeDefaultAgents()
LazyInit(reg) == IF Len(reg.agents) = 0 THEN initializeDefaultAgents(reg) ELSE reg

\* ---------------------------------------------------------------- requests
NoBody ==
  [name |-> Missing, instructions |-> Missing, model |-> Missing,
   tools |-> MissingSeq, handoffs |-> MissingSeq,
   message |-> Missing, history |-> MissingHistory, stream |-> Missing]

Request(method, path, xff, authorization, xApiKey, body) ==
  [method |-> method, path |-> path, xff |-> xff,
   authorization |-> authorization, xApiKey |-> xApiKey, body |-> body,
   origin |-> Undefined]

\* the request, sent with an Origin header
WithOrigin(rq, origin) == [rq EXCEPT !.origin = origin]

NoRequest == Request("", <<>>, Undefined, Undefined, Undefined, NoBody)

\* One invocation of the function withMiddleware returns: the request, where
\* the invocation stands, and what it has done so far.
\*   stages  the gateway stages, router and handler entered, in order
\*   res     the responses sent: res.json / res.writeHead / res.end
\*   data    the descriptors a response of /agents carried
\*   chat    the payload a chat response (or result event) carried
\*   events  the events written to the event stream
\*   closed  res.end() was called on the event stream
\*   gen     the calls of run(agent, input) made
\*   outcome how the last call of run ended: "", "resolved" or "rejected"
\*   lastAgent  result.lastAgent?.name of the call of run that resolved
Fresh(rq) ==
  [rq |-> rq, pc |-> "idle", stages |-> <<>>, res |-> <<>>, data |-> <<>>,
   chat |-> <<>>, events |-> <<>>, closed |-> FALSE, gen |-> <<>>, outcome |-> "",
   lastAgent |-> Missing, allowOrigin |-> Undefined]

Stage(st, name) == [st EXCEPT !.stages = Append(@, name)]

\* res.status(status).json({success, error, ...}); the handler returns
Json(st, status, error) ==
  [st EXCEPT !.res = Append(@, [kind |-> "json", status |-> status, error |-> error]),
             !.pc = "done"]

Descriptor(id, config) == [id |-> id, config |-> config]

\* user(message) of the SDK: a user turn
user(message) == <<"user", message>>

\* Input that puts the new message in front of the history
InputMessageFirst(chatData) ==
  IF Len(chatData.history) > 0
  THEN [kind |-> "items", text |-> Missing,
        items |-> <<user(chatData.message)>> \o chatData.history]
  ELSE [kind |-> "text", text |-> chatData.message, items |-> <<>>]

\* chatData.history.length > 0 ? [...chatData.history, user(chatData.message)]
\*                             : chatData.message
Input(chatData) ==
  IF Len(chatData.history) > 0
  THEN [kind |-> "items", text |-> Missing,
        items |-> chatData.history \o <<user(chatData.message)>>]
  ELSE [kind |-> "text", text |-> chatData.message, items |-> <<>>]

\* Run that makes the call twice
RunTwice(st, agentId, input, stream) ==
  [st EXCEPT !.gen = @ \o <<[agent |-> agentId, input |-> input, stream |-> stream],
                            [agent |-> agentId, input |-> input, stream |-> stream]>>,
             !.pc = "run"]

\* Run that gives the call up at once and answers a timeout
RunDeadline(st, agentId, input, stream) ==
  Json([st EXCEPT !.gen = Append(@, [agent |-> agentId, input |-> input, stream |-> stream])],
       500, "timeout")

\* await run(agent, input[, {stream: true}]): the call is made, the handler waits
Run(st, agentId, input, stream) ==
  [st EXCEPT !.gen = Append(@, [agent |-> agentId, input |-> input, stream |-> stream]),
             !.pc = "run"]

\* ---------------------------------------------------------------- handlers
handleAgents(st0, reg, path, newId) ==
  LET st == Stage(st0, "handleAgents")
      rq == st.rq
  IN
  IF rq.method = "GET" /\ Len(path) = 0 THEN
    [reg |-> reg,
     st |-> [Json(st, 200, "") EXCEPT !.data =
               [n \in 1..Len(reg.agentConfigs) |->
                  Descriptor(reg.agentConfigs[n].k, reg.agentConfigs[n].v)]]]
  ELSE IF rq.method = "POST" /\ Len(path) = 0 THEN
    IF AgentCreateValid(rq.body) THEN
      LET agentData == AgentCreateSchema(rq.body)
          agent == Agent(agentData.name, agentData.instructions,
                         agentData.model, agentData.tools)
      IN [reg |-> [agents |-> MapSet(reg.agents, newId, agent),
                   agentConfigs |-> MapSet(reg.agentConfigs, newId, agentData)],
          st |-> [Json(st, 201, "") EXCEPT !.data = <<Descriptor(newId, agentData)>>]]
    ELSE [reg |-> reg, st |-> Json(st, 400, "validation_error")]
  ELSE IF rq.method = "GET" /\ Len(path) = 1 THEN
    IF ~MapHas(reg.agentConfigs, path[1])
    THEN [reg |-> reg, st |-> Json(st, 404, "agent_not_found")]
    ELSE [reg |-> reg,
          st |-> [Json(st, 200, "") EXCEPT !.data =
                    <<Descriptor(path[1], MapGet(reg.agentConfigs, path[1]))>>]]
  ELSE [reg |-> reg, st |-> Json(st, 405, "method_not_allowed")]

\* handleChat that validates the body before it resolves the agent
handleChatValidateFirst(st0, reg, path) ==
  LET st == Stage(st0, "handleChat")
      rq == st.rq
  IN
  IF rq.method = "POST" /\ Len(path) = 1 THEN
    IF ~ChatValid(rq.body) THEN Json(st, 400, "validation_error")
    ELSE IF ~MapHas(reg.agents, path[1]) THEN Json(st, 404, "agent_not_found")
    ELSE
      LET chatData == ChatSchema(rq.body) IN
      IF chatData.stream
      THEN Run([st EXCEPT
                  !.res = Append(@, [kind |-> "stream", status |-> 200, error |-> ""]),
                  !.events = Append(@, [type |-> "start", agent |-> path[1]])],
               path[1], Input(chatData), TRUE)
      ELSE Run(st, path[1], Input(chatData), FALSE)
  ELSE Json(st, 405, "method_not_allowed")

handleChat(st0, reg, path) ==
  LET st == Stage(st0, "handleChat")
      rq == st.rq
  IN
  IF rq.method = "POST" /\ Len(path) = 1 THEN
    IF ~MapHas(reg.agents, path[1]) THEN Json(st, 404, "agent_not_found")
    ELSE IF ~ChatValid(rq.body) THEN Json(st, 400, "validation_error")
    ELSE
      LET chatData == ChatSchema(rq.body) IN
      IF chatData.stream
      THEN Run([st EXCEPT
                  !.res = Append(@, [kind |-> "stream", status |-> 200, error |-> ""]),
                  !.events = Append(@, [type |-> "start", agent |-> path[1]])],
               path[1], Input(chatData), TRUE)
      ELSE Run(st, path[1], Input(chatData), FALSE)
  ELSE Json(st, 405, "method_not_allowed")

\* handleQuickChat that runs the first agent of the registry
handleQuickChatFirstAgent(st0, reg) ==
  LET st == Stage(st0, "handleQuickChat")
      rq == st.rq
  IN
  IF rq.method = "POST" THEN
    IF ~ChatValid(rq.body) THEN Json(st, 400, "validation_error")
    ELSE IF ~MapHas(reg.agents, "coordinator")
    THEN Json(st, 500, "coordinator_not_available")
    ELSE Run(st, reg.agents[1].k, Input(ChatSchema(rq.body)), FALSE)
  ELSE Json(st, 405, "method_not_allowed")

handleQuickChat(st0, reg) ==
  LET st == Stage(st0, "handleQuickChat")
      rq == st.rq
  IN
  IF rq.method = "POST" THEN
    IF ~ChatValid(rq.body) THEN Json(st, 400, "validation_error")
    ELSE IF ~MapHas(reg.agents, "coordinator")
    THEN Json(st, 500, "coordinator_not_available")
    ELSE Run(st, "coordinator", Input(ChatSchema(rq.body)), FALSE)
  ELSE Json(st, 405, "method_not_allowed")

\* Router without the branch for the paths that match no route
RouterNoFallback(st0, reg0, newId) ==
  LET st == Stage(st0, "router")
      path == st.rq.path
  IN
  IF st.rq.method = "OPTIONS" THEN
    [reg |-> reg0,
     st |-> [st EXCEPT !.res = Append(@, [kind |-> "end", status |-> 200, error |-> ""]),
                       !.pc = "done"]]
  ELSE
    LET reg == LazyInit(reg0) IN
    IF Len(path) > 0 /\ path[1] = "agents" THEN handleAgents(st, reg, Tail(path), newId)
    ELSE IF Len(path) > 0 /\ path[1] = "chat"
      THEN [reg |-> reg, st |-> handleChat(st, reg, Tail(path))]
    ELSE [reg |-> reg, st |-> handleQuickChat(st, reg)]

\* the handler given to withMiddleware: the router
Router(st0, reg0, newId) ==
  LET st == Stage(st0, "router")
      path == st.rq.path
  IN
  IF st.rq.method = "OPTIONS" THEN
    [reg |-> reg0,
     st |-> [st EXCEPT !.res = Append(@, [kind |-> "end", status |-> 200, error |-> ""]),
                       !.pc = "done"]]
  ELSE
    LET reg == LazyInit(reg0) IN
    IF Len(path) > 0 /\ path[1] = "agents" THEN handleAgents(st, reg, Tail(path), newId)
    ELSE IF Len(path) > 0 /\ path[1] = "chat"
      THEN [reg |-> reg, st |-> handleChat(st, reg, Tail(path))]
    ELSE IF Len(path) > 0 /\ path[1] = "quick-chat"
      THEN [reg |-> reg, st |-> handleQuickChat(st, reg)]
    ELSE [reg |-> reg, st |-> Json(st, 404, "endpoint_not_found")]

\* API key validation whose 401 branch does not return
ApiKeyValidationNoReturn(st0, reg, envKey, newId) ==
  LET st == Stage(st0, "apiKey") IN
  IF ~AuthOK(st.rq, envKey)
  THEN Router(Json(st, 401, "unauthorized"), reg, newId)
  ELSE Router(st, reg, newId)

\* API key validation, then `await handler(req, res)`
ApiKeyValidation(st0, reg, envKey, newId) ==
  LET st == Stage(st0, "apiKey") IN
  IF ~AuthOK(st.rq, envKey)
  THEN [reg |-> reg, st |-> Json(st, 401, "unauthorized")]
  ELSE Router(st, reg, newId)

\* Rate limiting
RateLimiting(st0, store) ==
  LET st == Stage(st0, "rateLimiter") IN
  IF Rejected(store, RateKey(st.rq))
  THEN Json(st, 429, "rate_limit_exceeded")
  ELSE [st EXCEPT !.pc = "auth"]

\* Security headers and CORS.  cors() with a fixed origin option answers an
\* OPTIONS request itself (status optionsSuccessStatus, res.end()) and never
\* calls its callback, so the awaited promise stays pending; every other
\* request gets the CORS headers and the callback without an error, whether
\* its origin is in the list or not.
\* Cors whose callback gets an error for an origin that gets no header
CorsRejecting(st0, allowedOrigins) ==
  LET st1 == Stage(Stage(st0, "helmet"), "cors")
      st == [st1 EXCEPT !.allowOrigin = AllowOrigin(st1.rq.origin, corsOrigin(allowedOrigins))]
  IN
  IF st.rq.method = "OPTIONS"
  THEN [st EXCEPT !.res = Append(@, [kind |-> "end", status |-> 200, error |-> ""]),
                  !.pc = "hung"]
  ELSE IF st.allowOrigin = Undefined THEN Json(st, 500, "internal_error")
  ELSE [st EXCEPT !.pc = "rate"]

Cors(st0, allowedOrigins) ==
  LET st1 == Stage(Stage(st0, "helmet"), "cors")
      st == [st1 EXCEPT !.allowOrigin = AllowOrigin(st1.rq.origin, corsOrigin(allowedOrigins))]
  IN
  IF st.rq.method = "OPTIONS"
  THEN [st EXCEPT !.res = Append(@, [kind |-> "end", status |-> 200, error |-> ""]),
                  !.pc = "hung"]
  ELSE [st EXCEPT !.pc = "rate"]

\* ------------------------------------------------------ pollRunCompletion
\* What one status fetch comes to: the fetch rejects ("rejected"), or there is
\* a reply, whose body is not JSON ("text") or is the JSON value `result`:
\* result.success, whether result.data is there, result.data.status ("" when
\* it is not there) and result.data.last_error?.message ("" when not there).
Reply(kind, success, hasData, status, message) ==
  [kind |-> kind, success |-> success, hasData |-> hasData, status |-> status,
   message |-> message]

\* pollRunCompletion before it is called; `replies` is the history of what
\* its fetches came to, the last one being the local `result`.
NotCalled ==
  [pc |-> "idle", maxAttempts |-> 0, attempt |-> 0, fetches |-> 0, delays |-> 0,
   replies |-> <<>>, value |-> <<>>, error |-> <<>>]

\* the loop test with <= for <
LoopTestInclusive(p) ==
  IF p.attempt <= p.maxAttempts
  THEN [p EXCEPT !.pc = "fetch"]
  ELSE [p EXCEPT !.pc = "thrown", !.error = <<"Run polling timeout">>]

\* for (...; attempt < maxAttempts; ...): the next fetch, or the throw that
\* follows the loop
LoopTest(p) ==
  IF p.attempt < p.maxAttempts
  THEN [p EXCEPT !.pc = "fetch"]
  ELSE [p EXCEPT !.pc = "thrown", !.error = <<"Run polling timeout">>]

\* The body of the loop from the settling of fetch to `await delay`: a rejected
\* fetch and a body that response.json() cannot parse throw; reading
\* result.data.status throws a TypeError when success is set and data is not
\* there.
LoopBody(p, r) ==
  LET q == [p EXCEPT !.fetches = @ + 1, !.replies = Append(@, r)] IN
  IF r.kind = "rejected" THEN [q EXCEPT !.pc = "thrown", !.error = <<"fetch failed">>]
  ELSE IF r.kind = "text" THEN [q EXCEPT !.pc = "thrown", !.error = <<"SyntaxError">>]
  ELSE IF r.success /\ ~r.hasData THEN [q EXCEPT !.pc = "thrown", !.error = <<"TypeError">>]
  ELSE IF r.success /\ r.status = "completed"
    THEN [q EXCEPT !.pc = "returned", !.value = <<r>>]
  ELSE IF r.success /\ r.status \in {"failed", "cancelled", "expired"}
    THEN [q EXCEPT !.pc = "thrown",
                   !.error = <<"Run", r.status,
                               IF r.message /= "" THEN r.message ELSE "Unknown error">>]
  ELSE [q EXCEPT !.pc = "delay"]

\* ------------------------------------------------------------------ inputs
Slots == 1..MaxInFlight
RateKeys == {Default, <<"a">>}
CustomIds == {"custom_1", "custom_2"}   \* outcomes of `custom_${Date.now()}_${random}`
\* result.lastAgent?.name of a run of `agent`: the agent itself or one it
\* hands off to, or undefined
LastAgents(agent) ==
  {Missing, agent.name}
    \cup (IF "handoffs" \in DOMAIN agent
          THEN {agent.handoffs[n] : n \in 1..Len(agent.handoffs)}
          ELSE {})
EnvKeys == {Secret, Undefined}            \* process.env.API_KEY set, or not set

AuthHeaders == {Undefined, <<"B", "s">>, <<"B", "w">>, <<"s">>, <<"B">>}
ApiKeyHeaders == {Undefined, Secret, Wrong}
XffHeaders == {Undefined, <<"a">>}

AgentBodies ==
  {[NoBody EXCEPT !.name = n, !.instructions = ins, !.model = m, !.tools = t] :
     n \in {Missing, "", "A"}, ins \in {Missing, "", "I"},
     m \in {Missing, "m"}, t \in {MissingSeq, <<"t">>}}

ChatBodies ==
  {[NoBody EXCEPT !.message = msg, !.history = h, !.stream = str] :
     msg \in {Missing, "", "hi"},
     h \in {MissingHistory, << <<"user", "q">>, <<"assistant", "a">> >>},
     str \in {Missing, "true", "false", NotBoolean}}

\* a client that authenticates as the documentation shows
Authed(method, path, body) ==
  Request(method, path, Undefined, <<"B", "s">>, Undefined, body)

\* requests that differ in what the gateway reads
GatewayRequests ==
  {Request(mpb[1], mpb[2], xff, a, k, mpb[3]) :
     mpb \in {<<"GET", <<"agents">>, NoBody>>,
              <<"OPTIONS", <<"agents">>, NoBody>>},
     xff \in XffHeaders, a \in AuthHeaders, k \in ApiKeyHeaders}

\* requests that differ in what the router and the handlers read
ApiRequests ==
       {Authed(m, p, NoBody) :
          m \in {"GET", "DELETE"},
          p \in {<<"agents">>, <<"agents", "weather">>, <<"agents", "custom_1">>,
                 <<"agents", "nope">>, <<"agents", "a", "b">>,
                 <<"chat", "weather">>, <<"quick-chat">>, <<"other">>, <<>>}}
  \cup {Authed("POST", <<"agents">>, b) : b \in AgentBodies}
  \cup {Authed("POST", p, NoBody) : p \in {<<"agents", "weather">>, <<"chat">>, <<"other">>}}
  \cup {Authed("POST", p, b) :
          p \in {<<"chat", "weather">>, <<"chat", "custom_1">>, <<"chat", "nope">>,
                 <<"quick-chat">>},
          b \in ChatBodies}

\* well-formed requests to create an agent and to chat, of clients without the key
KeylessRequests ==
  {Request("POST", pb[1], xff, a, Undefined, pb[2]) :
     pb \in {<<<<"agents">>, [NoBody EXCEPT !.name = "A", !.instructions = "I"]>>,
             <<<<"chat", "weather">>, [NoBody EXCEPT !.message = "hi", !.stream = "true"]>>},
     xff \in XffHeaders, a \in {Undefined, <<"B", "w">>}}

Requests == GatewayRequests \cup ApiRequests \cup KeylessRequests

\* requests of clients that list the agents (or send the preflight of that
\* request), with the key, with a wrong key and without one, and the requests
\* of the clients without the key
RateRequests ==
       {Request(m, <<"agents">>, xff, a, Undefined, NoBody) :
          m \in {"GET", "OPTIONS"}, xff \in XffHeaders,
          a \in {Undefined, <<"B", "s">>, <<"B", "w">>}}
  \cup KeylessRequests

\* clients that register agents and list the registry
ListRequests ==
  {Authed("POST", <<"agents">>, [NoBody EXCEPT !.name = n, !.instructions = "I"]) :
     n \in {"A", "B"}}
  \cup {Authed("GET", <<"agents">>, NoBody)}

\* clients that register, look up and list agents while chats are under way
ConcRequests ==
  {Authed("POST", <<"agents">>, [NoBody EXCEPT !.name = "A", !.instructions = "I"]),
   Authed("GET", <<"agents">>, NoBody),
   Authed("GET", <<"agents", "custom_1">>, NoBody),
   Authed("POST", <<"chat", "custom_1">>, [NoBody EXCEPT !.message = "hi"]),
   Authed("POST", <<"chat", "weather">>, [NoBody EXCEPT !.message = "hi"])}

\* clients of one key that chat and list
SharedKeyRequests ==
  {Authed("POST", <<"chat", "weather">>, [NoBody EXCEPT !.message = "hi"]),
   Authed("GET", <<"agents">>, NoBody)}

\* values of ALLOWED_ORIGINS: not set, one origin, two origins, the star, the
\* empty string
CorsEnvs == {Undefined, <<"a">>, <<"a", ",", "b">>, <<"*">>, <<>>}
\* Origin headers: none, the two origins of the lists, another origin
Origins == {Undefined, <<"a">>, <<"b">>, <<"e">>}
\* requests of browsers and other clients, with the key and with a wrong one
CorsRequests ==
  {WithOrigin(Request(mp[1], mp[2], Undefined, a, Undefined, mp[3]), o) :
     mp \in {<<"GET", <<"agents">>, NoBody>>,
             <<"OPTIONS", <<"agents">>, NoBody>>,
             <<"POST", <<"chat", "weather">>, [NoBody EXCEPT !.message = "hi"]>>},
     a \in {<<"B", "s">>, <<"B", "w">>},
     o \in Origins}

\* the turns of a history, and the histories of up to MaxHistory turns
Turns == {<<"user", "q">>, <<"assistant", "a">>}
RECURSIVE HistoriesOf(_)
HistoriesOf(n) ==
  IF n = 0 THEN {<<>>}
  ELSE {Append(h, t) : h \in HistoriesOf(n - 1), t \in Turns}
Histories == UNION {HistoriesOf(n) : n \in 0..MaxHistory}

\* chats and quick chats of a client that sends a history along, or none
HistoryRequests ==
  {Authed("POST", p, [NoBody EXCEPT !.message = "hi", !.history = h]) :
     p \in {<<"chat", "weather">>, <<"quick-chat">>},
     h \in Histories \cup {MissingHistory}}

\* ritual-workflow requests, as api/chat/ritual-workflow.ts hands them to the
\* main handler (path chat, ritual-workflow), and the reading of that agent
WorkflowRequests ==
       {Authed("POST", <<"chat", "ritual-workflow">>,
               [NoBody EXCEPT !.message = msg, !.history = h, !.stream = str]) :
          msg \in {"", "ritual"},
          h \in {MissingHistory, << <<"user", "q">>, <<"assistant", "a">> >>},
          str \in {Missing, "true"}}
  \cup {Authed("GET", <<"agents", "ritual-workflow">>, NoBody)}

\* ----------------------------------------------------------------- actions
Registry == [agents |-> agents, agentConfigs |-> agentConfigs]

\* A request arrives and the gateway runs to its first await (helmet, cors).
\* The promises the gateway awaits are settled when they are awaited, so an
\* invocation runs on to the await of run() or to its response before the next
\* request is taken up: a request arrives while the others await run().
Arrive(i, rq) ==
  /\ reqs[i].pc = "idle"
  /\ \A j \in DOMAIN reqs : reqs[j].pc \in {"idle", "run"}
  /\ reqs' = [reqs EXCEPT ![i] = Cors(Fresh(rq), ALLOWED_ORIGINS)]
  /\ UNCHANGED <<poll, API_KEY, ALLOWED_ORIGINS, agents, agentConfigs, storage, admitted, created>>

\* Arrive, for the first MaxRequests requests of a behaviour
Accept(i, rq) ==
  /\ served < MaxRequests
  /\ served' = served + 1
  /\ Arrive(i, rq)

\* Arrive, while the client's window holds fewer than points + MaxOver points
Burst(i, rq) ==
  /\ storage[RateKey(rq)].value < points + MaxOver
  /\ served' = served
  /\ Arrive(i, rq)

\* RateStage that counts the requests with the valid key only
RateStageAuthedOnly(i) ==
  /\ reqs[i].pc = "rate"
  /\ storage' = IF AuthOK(reqs[i].rq, API_KEY)
                THEN Consume(storage, RateKey(reqs[i].rq))
                ELSE storage
  /\ reqs' = [reqs EXCEPT ![i] = RateLimiting(reqs[i], storage)]
  /\ admitted' = IF reqs'[i].pc = "auth"
                 THEN [admitted EXCEPT ![RateKey(reqs[i].rq)] = @ + 1]
                 ELSE admitted
  /\ UNCHANGED <<poll, API_KEY, ALLOWED_ORIGINS, agents, agentConfigs, served, created>>

\* The CORS promise resolved: rateLimiter.consume(key), up to its await.
RateStage(i) ==
  /\ reqs[i].pc = "rate"
  /\ storage' = Consume(storage, RateKey(reqs[i].rq))
  /\ reqs' = [reqs EXCEPT ![i] = RateLimiting(reqs[i], storage)]
  /\ admitted' = IF reqs'[i].pc = "auth"
                 THEN [admitted EXCEPT ![RateKey(reqs[i].rq)] = @ + 1]
                 ELSE admitted
  /\ UNCHANGED <<poll, API_KEY, ALLOWED_ORIGINS, agents, agentConfigs, served, created>>

\* the invocation answered 201: POST /agents registered an agent
Created(st) == st.pc = "done" /\ st.res /= <<>> /\ st.res[Len(st.res)].status = 201

\* consume resolved: the API key check, the router and the route handler, up
\* to the handler's first await or its response.
AuthStage(i) ==
  /\ reqs[i].pc = "auth"
  /\ \E newId \in CustomIds :
       LET out == ApiKeyValidation(reqs[i], Registry, API_KEY, newId) IN
       /\ reqs' = [reqs EXCEPT ![i] = out.st]
       /\ agents' = out.reg.agents
       /\ agentConfigs' = out.reg.agentConfigs
       /\ created' = IF Created(out.st)
                     THEN created \cup {[id |-> newId, body |-> reqs[i].rq.body,
                                        at |-> Cardinality(created) + 1]}
                     ELSE created
  /\ UNCHANGED <<poll, API_KEY, ALLOWED_ORIGINS, storage, served, admitted>>

Handler(st) == st.stages[Len(st.stages)]

\* ChatPayload that reports the agent invoked as the last agent
ChatPayloadAgentUsed(st, last) ==
  LET agentId == st.gen[Len(st.gen)].agent IN
  [agent_used |-> agentId, last_agent |-> agentId]

\* the chat payload of a response or of a result event
ChatPayload(st, last) ==
  LET agentId == st.gen[Len(st.gen)].agent IN
  [agent_used |-> agentId,
   last_agent |-> IF last = Missing THEN agentId ELSE last]

\* Resolved that writes the end event before the result event
ResolvedEndFirst(st, last) ==
  IF st.gen[Len(st.gen)].stream
  THEN [st EXCEPT !.events = @ \o <<[type |-> "end", agent |-> ""],
                                    [type |-> "result", agent |-> ChatPayload(st, last).agent_used]>>,
                  !.chat = Append(@, ChatPayload(st, last)),
                  !.closed = TRUE,
                  !.pc = "done"]
  ELSE [Json(st, 200, "") EXCEPT !.chat = Append(@, ChatPayload(st, last))]

\* Resolved that answers without the result of the run
ResolvedNoResult(st, last) ==
  IF st.gen[Len(st.gen)].stream
  THEN [st EXCEPT !.events = Append(@, [type |-> "end", agent |-> ""]),
                  !.closed = TRUE,
                  !.pc = "done"]
  ELSE Json(st, 200, "")

\* run(...) resolved: the rest of handleChat / handleQuickChat
Resolved(st, last) ==
  IF st.gen[Len(st.gen)].stream
  THEN [st EXCEPT !.events = @ \o <<[type |-> "result", agent |-> ChatPayload(st, last).agent_used],
                                    [type |-> "end", agent |-> ""]>>,
                  !.chat = Append(@, ChatPayload(st, last)),
                  !.closed = TRUE,
                  !.pc = "done"]
  ELSE [Json(st, 200, "") EXCEPT !.chat = Append(@, ChatPayload(st, last))]

\* Failed that writes the end event after the error event
FailedThenEnd(st) ==
  IF st.gen[Len(st.gen)].stream
  THEN [st EXCEPT !.events = @ \o <<[type |-> "error", agent |-> ""],
                                    [type |-> "end", agent |-> ""]>>,
                  !.closed = TRUE,
                  !.pc = "done"]
  ELSE IF Handler(st) = "handleChat" THEN Json(st, 500, "chat_error")
  ELSE Json(st, 500, "quick_chat_error")

\* Failed that leaves the error to the catch block of the gateway
FailedInternal(st) ==
  IF st.gen[Len(st.gen)].stream
  THEN [st EXCEPT !.closed = TRUE, !.pc = "done"]
  ELSE Json(st, 500, "internal_error")

\* Failed that answers a failed generation with the fallback of a success
FailedFallback(st) ==
  IF st.gen[Len(st.gen)].stream
  THEN [st EXCEPT !.events = Append(Append(@, [type |-> "result", agent |-> ""]),
                                    [type |-> "end", agent |-> ""]),
                  !.closed = TRUE,
                  !.pc = "done"]
  ELSE Json(st, 200, "")

\* Failed whose catch blocks only log the error
FailedSilent(st) == [st EXCEPT !.pc = "done"]

\* run(...) rejected: the catch blocks of handleChat / handleQuickChat
Failed(st) ==
  IF st.gen[Len(st.gen)].stream
  THEN [st EXCEPT !.events = Append(@, [type |-> "error", agent |-> ""]),
                  !.closed = TRUE,
                  !.pc = "done"]
  ELSE IF Handler(st) = "handleChat" THEN Json(st, 500, "chat_error")
  ELSE Json(st, 500, "quick_chat_error")

GenResolve(i) ==
  /\ reqs[i].pc = "run"
  /\ \E last \in LastAgents(MapGet(agents, reqs[i].gen[Len(reqs[i].gen)].agent)) :
       reqs' = [reqs EXCEPT ![i] = [Resolved(reqs[i], last) EXCEPT !.outcome = "resolved",
                                                              !.lastAgent = last]]
  /\ UNCHANGED <<poll, API_KEY, ALLOWED_ORIGINS, agents, agentConfigs, storage, served, admitted, created>>

GenReject(i) ==
  /\ reqs[i].pc = "run"
  /\ reqs' = [reqs EXCEPT ![i] = [Failed(reqs[i]) EXCEPT !.outcome = "rejected"]]
  /\ UNCHANGED <<poll, API_KEY, ALLOWED_ORIGINS, agents, agentConfigs, storage, served, admitted, created>>

\* The invocation is over: its promise settled after the response was sent, or
\* the platform gave up on an invocation whose CORS promise stays pending.
Finish(i) ==
  /\ reqs[i].pc \in {"done", "hung"}
  /\ reqs' = [reqs EXCEPT ![i] = Fresh(NoRequest)]
  /\ UNCHANGED <<poll, API_KEY, ALLOWED_ORIGINS, agents, agentConfigs, storage, served, admitted, created>>

\* What is left of a window `secs` seconds later: the record is deleted when
\* its duration has run out.
Expire(rec, secs) ==
  IF rec.expiresIn > secs THEN [rec EXCEPT !.expiresIn = @ - secs] ELSE NoRecord

\* A window's duration passes.  The awaits of the gateway settle at once, so
\* time passes only between requests and while run() is awaited.
Tick ==
  /\ \A i \in DOMAIN reqs : reqs[i].pc \notin {"rate", "auth"}
  /\ \E k \in RateKeys : storage[k].expiresIn > 0
  /\ storage' = [k \in RateKeys |-> Expire(storage[k], duration)]
  /\ admitted' = [k \in RateKeys |-> 0]
  /\ UNCHANGED <<poll, API_KEY, ALLOWED_ORIGINS, agents, agentConfigs, reqs, served, created>>

\* ---------------------------------------------------------- specifications
InitSlots(envKeys, envOrigins, slots) ==
  /\ API_KEY \in envKeys
  /\ ALLOWED_ORIGINS \in envOrigins
  /\ agents = <<>>
  /\ agentConfigs = <<>>
  /\ storage = [k \in RateKeys |-> NoRecord]
  /\ reqs = [i \in slots |-> Fresh(NoRequest)]
  /\ served = 0
  /\ admitted = [k \in RateKeys |-> 0]
  /\ created = {}
  /\ poll = NotCalled

\* up to MaxInFlight invocations at a time
InitEnv(envKeys, envOrigins) == InitSlots(envKeys, envOrigins, Slots)

\* ALLOWED_ORIGINS is not set
InitWith(envKeys) == InitEnv(envKeys, {Undefined})

Init == InitWith(EnvKeys)

\* up to MaxInFlight invocations at a time, any request of Requests, MaxRequests
\* requests within one window of the rate limiter
Next ==
  \/ \E i \in Slots : \E rq \in Requests : Accept(i, rq)
  \/ \E i \in Slots : RateStage(i)
  \/ \E i \in Slots : AuthStage(i)
  \/ \E i \in Slots : GenResolve(i)
  \/ \E i \in Slots : GenReject(i)
  \/ \E i \in Slots : Finish(i)

Spec == Init /\ [][Next]_vars

\* listing requests, enough of them to use up a window of the rate limiter,
\* and the passing of time
InitRate == InitWith({Secret})

NextRate ==
  \/ \E i \in Slots : \E rq \in RateRequests : Burst(i, rq)
  \/ \E i \in Slots : RateStage(i)
  \/ \E i \in Slots : AuthStage(i)
  \/ \E i \in Slots : Finish(i)
  \/ Tick

SpecRate == InitRate /\ [][NextRate]_vars

\* chats with a history
InitHistory == InitWith({Secret})

NextHistory ==
  \/ \E i \in Slots : \E rq \in HistoryRequests : Accept(i, rq)
  \/ \E i \in Slots : RateStage(i)
  \/ \E i \in Slots : AuthStage(i)
  \/ \E i \in Slots : GenResolve(i)
  \/ \E i \in Slots : GenReject(i)
  \/ \E i \in Slots : Finish(i)

SpecHistory == InitHistory /\ [][NextHistory]_vars

\* ritual-workflow requests
InitWorkflow == InitWith({Secret})

NextWorkflow ==
  \/ \E i \in Slots : \E rq \in WorkflowRequests : Accept(i, rq)
  \/ \E i \in Slots : RateStage(i)
  \/ \E i \in Slots : AuthStage(i)
  \/ \E i \in Slots : GenResolve(i)
  \/ \E i \in Slots : GenReject(i)
  \/ \E i \in Slots : Finish(i)

SpecWorkflow == InitWorkflow /\ [][NextWorkflow]_vars

\* The steps of the server itself are taken once they can be: the gateway and
\* the handler run to their next await, and an answered invocation ends.
\* Nothing makes the generation service answer.
\* AuthStage(i) can be taken exactly while the request is at the API key check
\* and every step of it leaves the check, so that its weak fairness is: the
\* request is not at the check forever.
FairWorkflow ==
  \A i \in Slots :
    /\ WF_vars(RateStage(i))
    /\ []<>(reqs[i].pc /= "auth")
    /\ WF_vars(Finish(i))

SpecWorkflowFair == InitWorkflow /\ [][NextWorkflow]_vars /\ FairWorkflow

\* requests with an Origin header, under the values of ALLOWED_ORIGINS
InitCors == InitEnv({Secret}, CorsEnvs)

NextCors ==
  \/ \E i \in Slots : \E rq \in CorsRequests : Accept(i, rq)
  \/ \E i \in Slots : RateStage(i)
  \/ \E i \in Slots : AuthStage(i)
  \/ \E i \in Slots : GenResolve(i)
  \/ \E i \in Slots : GenReject(i)
  \/ \E i \in Slots : Finish(i)

SpecCors == InitCors /\ [][NextCors]_vars

\* registrations and listings
InitList == InitWith({Secret})

\* Arrive, for the first MaxListed requests of a behaviour
AcceptList(i, rq) ==
  /\ served < MaxListed
  /\ served' = served + 1
  /\ Arrive(i, rq)

NextList ==
  \/ \E i \in Slots : \E rq \in ListRequests : AcceptList(i, rq)
  \/ \E i \in Slots : RateStage(i)
  \/ \E i \in Slots : AuthStage(i)
  \/ \E i \in Slots : Finish(i)

SpecList == InitList /\ [][NextList]_vars

\* One invocation more than MaxInFlight can be in flight: a request is served
\* while chats await run().
ConcSlots == 1..(MaxInFlight + 1)

InitConc == InitSlots({Secret}, {Undefined}, ConcSlots)

NextConc ==
  \/ \E i \in ConcSlots : \E rq \in ConcRequests : Accept(i, rq)
  \/ \E i \in ConcSlots : RateStage(i)
  \/ \E i \in ConcSlots : AuthStage(i)
  \/ \E i \in ConcSlots : GenResolve(i)
  \/ \E i \in ConcSlots : GenReject(i)
  \/ \E i \in ConcSlots : Finish(i)

SpecConc == InitConc /\ [][NextConc]_vars

\* requests of one client key, served while chats of that key await run(),
\* enough of them to use up a window, and the passing of time
InitShared == InitSlots({Secret}, {Undefined}, ConcSlots)

NextShared ==
  \/ \E i \in ConcSlots : \E rq \in SharedKeyRequests : Burst(i, rq)
  \/ \E i \in ConcSlots : RateStage(i)
  \/ \E i \in ConcSlots : AuthStage(i)
  \/ \E i \in ConcSlots : GenResolve(i)
  \/ \E i \in ConcSlots : GenReject(i)
  \/ \E i \in ConcSlots : Finish(i)
  \/ Tick

SpecShared == InitShared /\ [][NextShared]_vars

\* a gateway started without a secret: API_KEY not set, or set to the empty
\* string; requests with every combination of the two credential headers,
\* enough of them to use up a window, and the passing of time
ClosedEnvs == {Undefined, <<>>}

ClosedRequests ==
  {Request(mpb[1], mpb[2], Undefined, a, x, mpb[3]) :
     mpb \in {<<"GET", <<"agents">>, NoBody>>,
              <<"OPTIONS", <<"agents">>, NoBody>>,
              <<"POST", <<"agents">>, [NoBody EXCEPT !.name = "A", !.instructions = "I"]>>,
              <<"POST", <<"quick-chat">>, [NoBody EXCEPT !.message = "hi"]>>},
     a \in AuthHeaders,
     x \in {Undefined, <<>>, Secret}}

InitClosed == InitEnv(ClosedEnvs, {Undefined})

NextClosed ==
  \/ \E i \in Slots : \E rq \in ClosedRequests : Burst(i, rq)
  \/ \E i \in Slots : RateStage(i)
  \/ \E i \in Slots : AuthStage(i)
  \/ \E i \in Slots : Finish(i)
  \/ Tick

SpecClosed == InitClosed /\ [][NextClosed]_vars

\* a client that polls a run: what its status fetches can come to
RunStatuses == {"completed", "failed", "cancelled", "expired", "queued", "in_progress", ""}

Replies ==
       {Reply("rejected", FALSE, FALSE, "", ""), Reply("text", FALSE, FALSE, "", "")}
  \cup {Reply("json", ok, FALSE, "", "") : ok \in BOOLEAN}
  \cup {Reply("json", ok, TRUE, status, "") : ok \in BOOLEAN, status \in RunStatuses}
  \cup {Reply("json", ok, TRUE, "failed", "boom") : ok \in BOOLEAN}

\* pollRunCompletion(threadId, runId, apiKey, maxAttempts, intervalMs) is
\* called: up to the first await
Call(maxAttempts) ==
  /\ poll.pc = "idle"
  /\ poll' = LoopTest([NotCalled EXCEPT !.maxAttempts = maxAttempts])
  /\ UNCHANGED <<API_KEY, ALLOWED_ORIGINS, agents, agentConfigs, storage, reqs, served,
                 admitted, created>>

\* fetch and response.json() settle: up to the return, the throw or the delay
FetchSettles(r) ==
  /\ poll.pc = "fetch"
  /\ poll' = LoopBody(poll, r)
  /\ UNCHANGED <<API_KEY, ALLOWED_ORIGINS, agents, agentConfigs, storage, reqs, served,
                 admitted, created>>

\* the timer of delay(intervalMs) fires: attempt++ and the loop test
DelayFires ==
  /\ poll.pc = "delay"
  /\ poll' = LoopTest([poll EXCEPT !.attempt = @ + 1, !.delays = @ + 1])
  /\ UNCHANGED <<API_KEY, ALLOWED_ORIGINS, agents, agentConfigs, storage, reqs, served,
                 admitted, created>>

InitPoll == InitWith({Secret})

NextPoll ==
  \/ \E maxAttempts \in 0..MaxAttempts : Call(maxAttempts)
  \/ \E r \in Replies : FetchSettles(r)
  \/ DelayFires

\* every fetch settles, and every timer fires
FairPoll == WF_vars(\E r \in Replies : FetchSettles(r)) /\ WF_vars(DelayFires)

SpecPoll == InitPoll /\ [][NextPoll]_vars /\ FairPoll

\* ================================================================== claims
Last(seq) == seq[Len(seq)]
Types(events) == [n \in 1..Len(events) |-> events[n].type]
Has(seq, x) == \E n \in 1..Len(seq) : seq[n] = x
Answered(st) == st.pc \in {"done", "hung"}
Response(status, error) == [kind |-> "json", status |-> status, error |-> error]

\* the credentials a request carries: the bearer token, the Authorization
\* header as it is, the x-api-key header
BearerToken(h) == IF h /= <<>> /\ Head(h) = "B" THEN Tail(h) ELSE h
Carried(rq) ==
  {c \in {BearerToken(rq.authorization), rq.authorization, rq.xApiKey} :
     c /= Undefined /\ c /= <<>>}
\* no credential, or none equal to the configured secret
Unauthenticated(rq) == API_KEY \notin Carried(rq)

\* C1 as claimed: a request that carries no credential, or a credential not
\* equal to the configured secret, always receives 401 unauthorized.
C1_AlwaysUnauthorized ==
  \A i \in Slots :
    (Answered(reqs[i]) /\ Unauthenticated(reqs[i].rq))
      => reqs[i].res = <<Response(401, "unauthorized")>>

\* C1, amended: a request that carries no credential, or none equal to the
\* configured secret, never reaches the router or a route handler, makes no
\* generation invocation and leaves the agent registry unchanged; it is
\* answered 401 unauthorized once it reaches the API key stage, and is answered
\* before that stage only by the rate limiter (429) or by the CORS stage (the
\* preflight answer to an OPTIONS request).
C1_NoHandlerWithoutSecret ==
  /\ [](\A i \in Slots :
          LET st == reqs[i] IN
          (st.pc /= "idle" /\ Unauthenticated(st.rq)) =>
            /\ ~Has(st.stages, "router")
            /\ st.gen = <<>>
            /\ st.pc /= "run"
            /\ Has(st.stages, "apiKey") => st.res = <<Response(401, "unauthorized")>>
            /\ (Answered(st) /\ ~Has(st.stages, "apiKey")) =>
                 \/ st.res = <<Response(429, "rate_limit_exceeded")>>
                 \/ st.rq.method = "OPTIONS" /\ Last(st.stages) = "cors"
                      /\ st.res = <<[kind |-> "end", status |-> 200, error |-> ""]>>)
  /\ [][\A i \in Slots :
          (Unauthenticated(reqs[i].rq) /\ reqs[i].pc /= "idle" /\ reqs'[i] /= reqs[i])
            => (agents' = agents /\ agentConfigs' = agentConfigs)]_vars

\* C1 witness: with the registry initialised, a request without the secret
\* has been answered 401 at the API key stage.
C1_Witness ==
  \E i \in Slots :
    /\ Len(agents) > 0
    /\ reqs[i].pc = "done"
    /\ Unauthenticated(reqs[i].rq)
    /\ Last(reqs[i].stages) = "apiKey"
    /\ reqs[i].res = <<Response(401, "unauthorized")>>

\* the gateway stages, the router and the three handlers, in their order
GatewayOrder == <<"helmet", "cors", "rateLimiter", "apiKey", "router">>
Handlers == {"handleAgents", "handleChat", "handleQuickChat"}
IsPrefix(a, b) == Len(a) <= Len(b) /\ a = SubSeq(b, 1, Len(a))
ErrorsOf(st) == {st.res[n].error : n \in 1..Len(st.res)}

\* C2: the stages run in the order security headers, CORS, rate limiting, API
\* key; the stage that fails produces the response and is the last to run; the
\* router and the handlers run only after all four stages passed.
C2_StageOrder ==
  \A i \in Slots :
    LET st == reqs[i] IN
    /\ \/ IsPrefix(st.stages, GatewayOrder)
       \/ /\ Len(st.stages) = Len(GatewayOrder) + 1
          /\ SubSeq(st.stages, 1, Len(GatewayOrder)) = GatewayOrder
          /\ Last(st.stages) \in Handlers
    /\ st.pc = "hung" => Last(st.stages) = "cors"
    /\ "rate_limit_exceeded" \in ErrorsOf(st) =>
         (Last(st.stages) = "rateLimiter" /\ Len(st.res) = 1)
    /\ "unauthorized" \in ErrorsOf(st) =>
         (Last(st.stages) = "apiKey" /\ Len(st.res) = 1)
    /\ Has(st.stages, "router") =>
         /\ ErrorsOf(st) \cap {"rate_limit_exceeded", "unauthorized"} = {}
         /\ ~Unauthenticated(st.rq)
         /\ st.rq.method /= "OPTIONS"

\* C2 witness: a request passed three stages and was answered by the fourth.
C2_Witness ==
  \E i \in Slots :
    /\ reqs[i].stages = <<"helmet", "cors", "rateLimiter", "apiKey">>
    /\ reqs[i].res = <<Response(401, "unauthorized")>>

\* C3: for each client key the rate limiter admits exactly `points` requests
\* within one window and answers the next one 429 rate_limit_exceeded; after the
\* window has elapsed (a Tick) requests of that client are admitted again.
C3_RateLimit ==
  /\ [](\A k \in RateKeys : admitted[k] <= points)
  /\ [][\A i \in Slots :
          (reqs[i].pc = "rate" /\ reqs'[i].pc /= "rate") =>
            LET k == RateKey(reqs[i].rq) IN
            IF admitted[k] < points
            THEN reqs'[i].pc = "auth" /\ reqs'[i].res = <<>>
            ELSE reqs'[i].pc = "done"
                 /\ reqs'[i].res = <<Response(429, "rate_limit_exceeded")>>]_vars

\* C3 witness: a client whose window holds `points` admitted requests has been
\* answered 429, while the other client is below its limit.
C3_Witness ==
  \E i \in Slots :
    /\ admitted[RateKey(reqs[i].rq)] = points
    /\ reqs[i].res = <<Response(429, "rate_limit_exceeded")>>
    /\ \E k \in RateKeys : admitted[k] > 0 /\ admitted[k] < points

\* a header that carries the configured secret: the secret, bare or as a
\* bearer token
CarriesSecret(h) == h = API_KEY \/ h = <<"B">> \o API_KEY

\* C4 as claimed: a request passes the API key stage whenever at least one of
\* its two credential headers carries the configured secret, and is answered
\* 401 when neither does.
C4_EitherHeader ==
  \A i \in Slots :
    LET st == reqs[i] IN
    (API_KEY = Secret /\ Has(st.stages, "apiKey")) =>
      IF CarriesSecret(st.rq.authorization) \/ CarriesSecret(st.rq.xApiKey)
      THEN Has(st.stages, "router") /\ "unauthorized" \notin ErrorsOf(st)
      ELSE st.res = <<Response(401, "unauthorized")>>

IsChat(st) ==
  /\ Has(st.stages, "handleChat")
  /\ st.rq.method = "POST"
  /\ Len(st.rq.path) = 2
\* the body violates the ChatRequest shape
ViolatesChatShape(body) ==
  \/ body.message = Missing
  \/ body.message = ""
  \/ body.stream \notin {Missing, "true", "false"}

\* C5: POST /chat/{id} resolves the agent, then validates the body, then
\* invokes the generation: an id unknown to the registry when the handler runs
\* is answered 404 agent_not_found whatever the body, a known id with a body
\* that violates the ChatRequest shape 400 validation_error, both without a
\* generation invocation; otherwise exactly one generation invocation is made,
\* and none is added later.
C5_ChatOrder ==
  /\ [][\A i \in Slots :
          (reqs[i].pc = "auth" /\ IsChat(reqs'[i])) =>
            LET st == reqs'[i]
                id == st.rq.path[2]
            IN
            IF ~MapHas(agents', id)
            THEN st.res = <<Response(404, "agent_not_found")>> /\ st.gen = <<>>
            ELSE IF ViolatesChatShape(st.rq.body)
            THEN st.res = <<Response(400, "validation_error")>> /\ st.gen = <<>>
            ELSE Len(st.gen) = 1 /\ st.gen[1].agent = id]_vars
  /\ [](\A i \in Slots :
          IsChat(reqs[i]) =>
            /\ Len(reqs[i].gen) <= 1
            /\ ErrorsOf(reqs[i]) \cap {"agent_not_found", "validation_error"} /= {}
                 => reqs[i].gen = <<>>)

\* C5 witness: an unknown id with a body that violates the shape was answered 404.
C5_Witness ==
  \E i \in Slots :
    /\ IsChat(reqs[i])
    /\ ~MapHas(agents, reqs[i].rq.path[2])
    /\ ViolatesChatShape(reqs[i].rq.body)
    /\ reqs[i].res = <<Response(404, "agent_not_found")>>

Streaming(st) == st.gen /= <<>> /\ Last(st.gen).stream

C7_StreamError ==
  \A i \in Slots :
    LET st == reqs[i]
        n == Len(st.events)
    IN
    (Streaming(st) /\ st.outcome = "rejected") =>
      /\ Cardinality({m \in 1..n : st.events[m].type = "error"}) = 1
      /\ st.events[n].type = "error"
      /\ \A m \in 1..n : st.events[m].type \notin {"result", "end"}
      /\ st.closed /\ st.pc = "done"
      /\ st.res = <<[kind |-> "stream", status |-> 200, error |-> ""]>>

\* C7 witness: the generation of a streaming chat failed.
C7_Witness ==
  \E i \in Slots :
    /\ Streaming(reqs[i])
    /\ reqs[i].outcome = "rejected"
    /\ Types(reqs[i].events) = <<"start", "error">>

\* what a descriptor registered from `body` holds: the model defaults to
\* gpt-4o and the tools to the empty list
Registered(body) ==
  [name |-> body.name,
   instructions |-> body.instructions,
   model |-> IF body.model = Missing THEN "gpt-4o" ELSE body.model,
   tools |-> IF body.tools = MissingSeq THEN <<>> ELSE body.tools]
Shown(config) ==
  [name |-> config.name, instructions |-> config.instructions,
   model |-> config.model, tools |-> config.tools]
IsGetAgent(st) ==
  /\ st.pc = "done"
  /\ Has(st.stages, "handleAgents")
  /\ st.rq.method = "GET"
  /\ Len(st.rq.path) = 2

\* C8 as claimed: GET /api/agents/{id} with an id a POST /api/agents returned
\* yields the name, instructions, model and tools registered by that POST,
\* whatever requests came in between.
C8_RoundTrip ==
  \A i \in Slots : \A c \in created :
    (IsGetAgent(reqs[i]) /\ reqs[i].rq.path[2] = c.id) =>
      /\ reqs[i].res = <<Response(200, "")>>
      /\ Len(reqs[i].data) = 1
      /\ reqs[i].data[1].id = c.id
      /\ Shown(reqs[i].data[1].config) = Registered(c.body)

IsCreate(st) ==
  /\ Has(st.stages, "handleAgents")
  /\ st.rq.method = "POST"
  /\ Len(st.rq.path) = 1

\* C9 as claimed: registering under an identifier that is already in the
\* registry fails with DuplicateAgent and leaves the existing descriptor as it
\* is; the registry holds one descriptor per identifier and a registered
\* descriptor is never modified or replaced.
C9_NoDuplicate ==
  /\ [](Cardinality(MapKeys(agentConfigs)) = Len(agentConfigs))
  /\ [][/\ \A id \in MapKeys(agentConfigs) :
             /\ MapHas(agentConfigs', id)
             /\ MapGet(agentConfigs', id) = MapGet(agentConfigs, id)
        /\ \A i \in Slots :
             (reqs[i].pc = "auth" /\ IsCreate(reqs'[i]) /\ reqs'[i].data /= <<>>
              /\ MapHas(agentConfigs, reqs'[i].data[1].id))
               => reqs'[i].res /= <<Response(201, "")>>]_vars

\* the body has an empty or missing name or instructions
InvalidDescriptor(body) ==
  \/ body.name \in {Missing, ""}
  \/ body.instructions \in {Missing, ""}

\* the step in which slot i handles a POST /api/agents with such a body
RejectsCreate(i) ==
  /\ reqs[i].pc = "auth"
  /\ IsCreate(reqs'[i])
  /\ InvalidDescriptor(reqs[i].rq.body)

\* C10 as claimed: a POST /api/agents with an empty or missing name or
\* instructions is answered 400 validation_error and both maps of the registry
\* are exactly as they were before the request.
C10_RegistryAsBefore ==
  [][\A i \in Slots :
       RejectsCreate(i) =>
         /\ reqs'[i].res = <<Response(400, "validation_error")>>
         /\ agents' = agents
         /\ agentConfigs' = agentConfigs]_vars

\* C10, amended: such a request is answered 400 validation_error and registers
\* nothing: both maps are as they were when the request arrived, or, when they
\* were still empty, hold exactly the built-in agents the router installs
\* before it dispatches.
C10_NothingRegistered ==
  [][\A i \in Slots :
       RejectsCreate(i) =>
         /\ reqs'[i].res = <<Response(400, "validation_error")>>
         /\ reqs'[i].data = <<>>
         /\ created' = created
         /\ IF Len(agents) > 0
            THEN agents' = agents /\ agentConfigs' = agentConfigs
            ELSE agents' = BuiltinAgents /\ agentConfigs' = BuiltinConfigs]_vars

\* C10 witness: with a custom agent registered, a POST /api/agents without
\* instructions has been answered 400.
C10_Witness ==
  \E i \in Slots :
    /\ created /= {}
    /\ reqs[i].pc = "done"
    /\ IsCreate(reqs[i])
    /\ InvalidDescriptor(reqs[i].rq.body)
    /\ reqs[i].res = <<Response(400, "validation_error")>>

\* the handler the router dispatches a path to ("" when no route matches)
RouteOf(path) ==
  IF path = <<>> THEN ""
  ELSE IF path[1] = "agents" THEN "handleAgents"
  ELSE IF path[1] = "chat" THEN "handleChat"
  ELSE IF path[1] = "quick-chat" THEN "handleQuickChat"
  ELSE ""

\* the method/path combinations the routes support
Supported(method, path) ==
  \/ RouteOf(path) = "handleAgents" /\ method = "GET" /\ Len(path) \in {1, 2}
  \/ RouteOf(path) = "handleAgents" /\ method = "POST" /\ Len(path) = 1
  \/ RouteOf(path) = "handleChat" /\ method = "POST" /\ Len(path) = 2
  \/ RouteOf(path) = "handleQuickChat" /\ method = "POST"

\* the step in which the gateway passes the request of slot i to the router
Routed(i) == reqs[i].pc = "auth" /\ Has(reqs'[i].stages, "router")

\* the dispatch of the request of slot i as C11 states it
Dispatched(i) ==
  LET st == reqs'[i]
      route == RouteOf(st.rq.path)
  IN
  IF route = ""
  THEN Last(st.stages) = "router" /\ st.res = <<Response(404, "endpoint_not_found")>>
  ELSE /\ Last(st.stages) = route
       /\ "endpoint_not_found" \notin ErrorsOf(st)
       /\ ~Supported(st.rq.method, st.rq.path) =>
            /\ st.res = <<Response(405, "method_not_allowed")>>
            /\ st.gen = <<>>
            /\ st.data = <<>>

IsQuickChat(st) == Has(st.stages, "handleQuickChat")

HistoryOf(body) == IF body.history = MissingHistory THEN <<>> ELSE body.history

\* C13: in every call of run the chat and quick-chat handlers make, the
\* history of the request is a prefix of the input, in its order and whole,
\* and the new user message is the one element after it; with an empty history
\* the message is forwarded alone.  The request keeps its history as it was.
C13_HistoryPreserved ==
  /\ [](\A i \in Slots : \A n \in 1..Len(reqs[i].gen) :
          LET h == HistoryOf(reqs[i].rq.body)
              input == reqs[i].gen[n].input
          IN
          IF h = <<>>
          THEN input.kind = "text" /\ input.text = reqs[i].rq.body.message
          ELSE /\ input.kind = "items"
               /\ Len(input.items) = Len(h) + 1
               /\ \A m \in 1..Len(h) : input.items[m] = h[m]
               /\ input.items[Len(h) + 1] = <<"user", reqs[i].rq.body.message>>)
  /\ [][\A i \in Slots :
          (reqs[i].pc /= "idle" /\ reqs'[i].pc /= "idle") => reqs'[i].rq = reqs[i].rq]_vars

\* C13 witness: a quick chat forwarded a history of MaxHistory turns that
\* are not all alike.
C13_Witness ==
  \E i \in Slots :
    /\ IsQuickChat(reqs[i])
    /\ Len(reqs[i].gen) = 1
    /\ Len(HistoryOf(reqs[i].rq.body)) = MaxHistory
    /\ HistoryOf(reqs[i].rq.body)[1] /= HistoryOf(reqs[i].rq.body)[MaxHistory]

\* a workflow run: a POST /chat/ritual-workflow with a valid body that the
\* chat handler has taken up
IsWorkflowRun(st) ==
  /\ IsChat(st)
  /\ st.rq.path[2] = "ritual-workflow"
  /\ ~ViolatesChatShape(st.rq.body)
  /\ st.pc \in {"run", "done"}
AgentsInvoked(st) == [n \in 1..Len(st.gen) |-> st.gen[n].agent]
Perspectives ==
  <<"composer-anthropology", "composer-biology", "composer-psychology",
    "composer-economy", "composer-ergonomics">>
PerspectiveNames ==
  <<"Composer Anthropology", "Composer Biology", "Composer Psychology",
    "Composer Economy", "Composer Ergonomics">>

C15_CompositionFailed ==
  \A i \in Slots :
    LET st == reqs[i] IN
    (IsWorkflowRun(st) /\ st.outcome = "rejected") =>
      /\ ErrorsOf(st) \cap {"CompositionFailed", "composition_failed"} /= {}
      /\ \A n \in 1..Len(st.gen) : st.gen[n].agent \notin {"synthesizer", "red-flag-checker"}

\* C15, amended: a workflow run whose generation invocation fails ends failed
\* with 500 chat_error, or with one error event on its stream when it
\* streams; it makes no further invocation: no synthesis, no screening.
C15_ChatError ==
  \A i \in Slots :
    LET st == reqs[i] IN
    (IsWorkflowRun(st) /\ st.outcome = "rejected") =>
      /\ st.pc = "done"
      /\ AgentsInvoked(st) = <<"ritual-workflow">>
      /\ st.chat = <<>>
      /\ IF st.gen[1].stream
         THEN /\ Types(st.events) = <<"start", "error">>
              /\ st.closed
              /\ st.res = <<[kind |-> "stream", status |-> 200, error |-> ""]>>
         ELSE st.res = <<Response(500, "chat_error")>>

\* C15 witness: a workflow run that does not stream has failed.
C15_Witness ==
  \E i \in Slots :
    /\ IsWorkflowRun(reqs[i])
    /\ reqs[i].outcome = "rejected"
    /\ reqs[i].res = <<Response(500, "chat_error")>>

\* the workflow run reached Done: it was answered with a result
Done(st) ==
  /\ st.pc = "done"
  /\ \/ st.res = <<Response(200, "")>>
     \/ Has(Types(st.events), "result")

\* C16 as claimed: a workflow run that reaches Done after a perspective
\* failed has passed to synthesis a batch of the outputs of the perspectives
\* that succeeded, at least four of them, in the fixed order.
C16_SynthesisBatch ==
  \A i \in Slots :
    LET st == reqs[i] IN
    (IsWorkflowRun(st) /\ Done(st)) =>
      \E n \in 1..Len(st.gen) :
        /\ st.gen[n].agent = "synthesizer"
        /\ st.gen[n].input.kind = "items"
        /\ Len(st.gen[n].input.items) \in {4, 5}

\* C16, amended: a workflow run reaches Done exactly when its one generation
\* invocation resolves, whatever happened to the perspectives within it; the
\* server passes no batch to a synthesis: its one invocation is of the
\* ritual-workflow agent and carries the input of the client, and the result
\* it reports is the result of that invocation, with agent_used
\* ritual-workflow.
C16_DoneWhenResolved ==
  \A i \in Slots :
    LET st == reqs[i] IN
    IsWorkflowRun(st) =>
      /\ Done(st) <=> st.outcome = "resolved"
      /\ AgentsInvoked(st) = <<"ritual-workflow">>
      /\ st.gen[1].input = Input(ChatSchema(st.rq.body))
      /\ st.outcome = "resolved" =>
           /\ Len(st.chat) = 1
           /\ st.chat[1].agent_used = "ritual-workflow"
           /\ IF st.gen[1].stream
              THEN Types(st.events) = <<"start", "result", "end">>
              ELSE st.res = <<Response(200, "")>>

\* C16 witness: a workflow run with a history reached Done.
C16_Witness ==
  \E i \in Slots :
    /\ IsWorkflowRun(reqs[i])
    /\ Done(reqs[i])
    /\ reqs[i].gen[1].input.kind = "items"
    /\ reqs[i].res = <<Response(200, "")>>

\* the workflow run ended with the revisor: its screening had flagged the
\* synthesized ritual
EndedWithRevision(st) == st.outcome = "resolved" /\ st.lastAgent = "Revisor"
Invocations(st, agentId) == Cardinality({n \in 1..Len(st.gen) : st.gen[n].agent = agentId})

\* C17 as claimed: a workflow run whose screening flagged the ritual has made
\* exactly one revision invocation, a run whose screening did not has made
\* none, and no run makes more than one revision or screening invocation.
C17_OneRevision ==
  \A i \in Slots :
    LET st == reqs[i] IN
    (IsWorkflowRun(st) /\ st.outcome = "resolved") =>
      /\ Invocations(st, "revisor") = (IF EndedWithRevision(st) THEN 1 ELSE 0)
      /\ Invocations(st, "red-flag-checker") <= 1

\* C17, amended: the server makes no screening and no revision invocation of
\* its own in a workflow run, and never more than its one invocation of the
\* ritual-workflow agent; whether a revision takes place is decided within
\* that invocation, the revisor being among its handoffs, and the response
\* carries the result of that invocation and names in last_agent the agent
\* that produced it: the revisor when the run ended with the revision.
C17_RevisionWithinInvocation ==
  \A i \in Slots :
    LET st == reqs[i] IN
    IsWorkflowRun(st) =>
      /\ Invocations(st, "revisor") = 0
      /\ Invocations(st, "red-flag-checker") = 0
      /\ Len(st.gen) = 1
      /\ Has(MapGet(agents, "ritual-workflow").handoffs, "Revisor")
      /\ st.outcome = "resolved" =>
           /\ Len(st.chat) = 1
           /\ st.chat[1].last_agent =
                IF st.lastAgent = Missing THEN "ritual-workflow" ELSE st.lastAgent
           /\ EndedWithRevision(st) => st.chat[1].last_agent = "Revisor"

\* C17 witness: a workflow run ended with the revision.
C17_Witness ==
  \E i \in Slots :
    /\ IsWorkflowRun(reqs[i])
    /\ EndedWithRevision(reqs[i])
    /\ reqs[i].chat[1].last_agent = "Revisor"

\* the generation invocations of a request after its first: its retries
Retries(st) == IF st.gen = <<>> THEN 0 ELSE Len(st.gen) - 1
\* the response reports a success: status 200 with a result, or a stream
\* with a result or an end event
ReportsSuccess(st) ==
  \/ st.chat /= <<>>
  \/ \E n \in 1..Len(st.res) : st.res[n].kind = "json" /\ st.res[n].status < 400
  \/ \E n \in 1..Len(st.events) : st.events[n].type \in {"result", "end"}
\* the response reports an error
ReportsError(st) ==
  \/ \E n \in 1..Len(st.res) :
       st.res[n].kind = "json" /\ st.res[n].status >= 500 /\ st.res[n].error /= ""
  \/ /\ st.events /= <<>>
     /\ Last(st.events).type = "error"
     /\ st.closed

Awaiting(st) == st.pc = "run" /\ st.gen /= <<>> /\ st.outcome = ""

\* C19 as claimed: every workflow run terminates, whether or not the
\* generation service answers.
C19_Terminates ==
  \A i \in Slots :
    (IsWorkflowRun(reqs[i]) /\ Awaiting(reqs[i])) ~> (reqs[i].pc = "done")

\* C19, amended: a workflow run ends when the generation service answers and
\* only then: from the call on the handler awaits the answer, no step other
\* than the answer of the service ends the wait, no response reports a
\* timeout, and the step that brings the answer ends the run; every accepted
\* request reaches the call or its error response.
C19_EndsWithTheAnswer ==
  /\ [](\A i \in Slots :
          /\ (reqs[i].gen /= <<>> /\ reqs[i].outcome = "") => Awaiting(reqs[i])
          /\ "timeout" \notin ErrorsOf(reqs[i]))
  /\ [][\A i \in Slots :
          (Awaiting(reqs[i]) /\ reqs'[i] /= reqs[i]) =>
            /\ reqs'[i].outcome \in {"resolved", "rejected"}
            /\ reqs'[i].pc = "done"
            /\ reqs'[i].gen = reqs[i].gen]_vars
  /\ \A i \in Slots :
       (reqs[i].pc \in {"rate", "auth"}) ~> (reqs[i].pc \in {"run", "done", "hung"})

\* C19 witness: a workflow run awaits the generation service.
C19_Witness ==
  \E i \in Slots : IsWorkflowRun(reqs[i]) /\ Awaiting(reqs[i])

\* the request ended in a failure: the generation failed, or a response with
\* an error status was sent
FailureOutcome(st) ==
  /\ st.pc = "done"
  /\ \/ st.outcome = "rejected"
     \/ \E n \in 1..Len(st.res) : st.res[n].status >= 400
\* a structured JSON error: an error status and an error code
StructuredError(r) == r.kind = "json" /\ r.status >= 400 /\ r.error /= ""

\* C20: every failure outcome of every route is reported as one structured
\* JSON error with an error code, and no response of the request carries a
\* success status.
C20_StructuredErrors ==
  \A i \in Slots :
    LET st == reqs[i] IN
    FailureOutcome(st) =>
      /\ Len(st.res) = 1
      /\ StructuredError(st.res[1])
      /\ st.events = <<>>

\* the origins a value of ALLOWED_ORIGINS lists
AllowList(env) ==
  IF env = <<"a">> THEN {<<"a">>}
  ELSE IF env = <<"a", ",", "b">> THEN {<<"a">>, <<"b">>}
  ELSE IF env = <<"*">> THEN {<<"*">>}
  ELSE IF env = <<>> THEN {<<>>}
  ELSE {}
\* an allow-list is configured and the request's Origin is not in it
Disallowed(rq) ==
  /\ ALLOWED_ORIGINS /= Undefined
  /\ rq.origin /= Undefined
  /\ rq.origin \notin AllowList(ALLOWED_ORIGINS)

IsList(st) ==
  /\ st.pc = "done"
  /\ Has(st.stages, "handleAgents")
  /\ st.rq.method = "GET"
  /\ Len(st.rq.path) = 1
  /\ st.res = <<Response(200, "")>>
\* the registration that an identifier stands for: the last POST answered
\* with it
Latest(id) ==
  CHOOSE c \in created : c.id = id /\ \A d \in created : d.id = id => d.at <= c.at
Builtins == Len(BuiltinConfigs)

\* C22: GET /api/agents returns every descriptor of the registry exactly
\* once: the built-in descriptors first, in their fixed order, then the custom
\* agents in the order in which their POST requests were processed.
C22_ListInOrder ==
  \A i \in Slots :
    LET st == reqs[i]
        n == Len(st.data)
    IN
    IsList(st) =>
      /\ n = Len(agentConfigs)
      /\ \A a, b \in 1..n : st.data[a].id = st.data[b].id => a = b
      /\ {st.data[a].id : a \in 1..n} = MapKeys(agentConfigs)
      /\ n >= Builtins
      /\ \A a \in 1..Builtins : st.data[a] = Descriptor(BuiltinConfigs[a].k, BuiltinConfigs[a].v)
      /\ \A a \in (Builtins + 1)..n :
           /\ \E c \in created : c.id = st.data[a].id
           /\ Shown(st.data[a].config) = Registered(Latest(st.data[a].id).body)
      /\ \A a, b \in (Builtins + 1)..n :
           a < b => Latest(st.data[a].id).at < Latest(st.data[b].id).at

\* the step in which the handler of the request in slot i runs
Handles(i) == reqs[i].pc = "auth" /\ Has(reqs'[i].stages, "router")

\* C23: at every point where a request can observe the registry, that is
\* between any two uninterrupted segments of the invocations in flight, the
\* identifiers of the runnable agents are the identifiers of the descriptors;
\* so an id is answered agent_not_found by the chat handler exactly when the
\* descriptor map does not have it, and by GET /api/agents/{id} exactly when
\* the agent map does not have it.
C23_MapsAgree ==
  /\ [](MapKeys(agents) = MapKeys(agentConfigs))
  /\ [](Len(agents) = Len(agentConfigs) /\ Cardinality(MapKeys(agents)) = Len(agents))
  /\ [][\A i \in DOMAIN reqs :
          (Handles(i) /\ Len(reqs[i].rq.path) = 2) =>
            /\ (reqs[i].rq.path[1] = "chat" /\ reqs[i].rq.method = "POST") =>
                 ("agent_not_found" \in ErrorsOf(reqs'[i])
                    <=> ~MapHas(agentConfigs', reqs[i].rq.path[2]))
            /\ (reqs[i].rq.path[1] = "agents" /\ reqs[i].rq.method = "GET") =>
                 ("agent_not_found" \in ErrorsOf(reqs'[i])
                    <=> ~MapHas(agents', reqs[i].rq.path[2]))]_vars

\* C23 witness: an agent was registered while a chat awaits its generation,
\* and another request is about to observe the registry.
C23_Witness ==
  \E i, j \in DOMAIN reqs :
    /\ i /= j
    /\ reqs[i].pc = "run"
    /\ reqs[j].pc = "auth"
    /\ created /= {}
    /\ MapHas(agents, "custom_1")

\* C24: whatever invocations of a client key are in flight, the rate limiter
\* admits at most `points` requests of the key within one window, and every
\* request that passes the rate-limiting stage adds exactly one point to the
\* key's counter: the counter holds the admitted requests and the rejected
\* ones of the window, none is lost.
C24_NoLostUpdate ==
  /\ [](\A k \in RateKeys :
          /\ admitted[k] <= points
          /\ admitted[k] = IF storage[k].value <= points THEN storage[k].value ELSE points)
  /\ [][\A i \in DOMAIN reqs :
          (reqs[i].pc = "rate" /\ reqs'[i].pc /= "rate") =>
            LET k == RateKey(reqs[i].rq) IN
            /\ storage'[k].value = storage[k].value + 1
            /\ reqs'[i].pc = "auth" <=> storage'[k].value <= points
            /\ reqs'[i].pc = "auth" => admitted'[k] = admitted[k] + 1]_vars

\* C24 witness: the window of a key is used up and a request of the key is
\* answered 429 while a chat of the same key awaits its generation.
C24_Witness ==
  \E i, j \in DOMAIN reqs :
    /\ i /= j
    /\ reqs[i].pc = "run"
    /\ RateKey(reqs[i].rq) = RateKey(reqs[j].rq)
    /\ reqs[j].res = <<Response(429, "rate_limit_exceeded")>>
    /\ admitted[RateKey(reqs[j].rq)] = points

\* the registry holds the built-in agents and descriptors, first and in the
\* order of initializeDefaultAgents
Initialized(a, c) ==
  /\ Len(a) >= Len(BuiltinAgents)
  /\ SubSeq(a, 1, Len(BuiltinAgents)) = BuiltinAgents
  /\ Len(c) >= Builtins
  /\ SubSeq(c, 1, Builtins) = BuiltinConfigs

\* C25: the built-in descriptors are registered once, before the first route
\* handler runs: the registry is empty or initialized, it is filled in the
\* step of the first request that reaches the router, every route handler
\* finds all built-in identifiers, and once the registry is initialized the
\* built-in entries stay as they are, so that the condition of the
\* initialization never holds again.
C25_InitializedOnce ==
  /\ [](\/ agents = <<>> /\ agentConfigs = <<>>
        \/ Initialized(agents, agentConfigs))
  /\ [][\A i \in Slots :
          (reqs[i].pc = "auth" /\ Last(reqs'[i].stages) \in Handlers) =>
            /\ Initialized(agents', agentConfigs')
            /\ \A n \in 1..Builtins :
                 MapHas(agents', BuiltinConfigs[n].k) /\ MapHas(agentConfigs', BuiltinConfigs[n].k)]_vars
  /\ [][agents /= <<>> =>
          /\ Initialized(agents', agentConfigs')
          /\ Len(agents') >= Len(agents)]_vars
  /\ [][(agents = <<>> /\ agents' /= <<>>) =>
          /\ agents' = BuiltinAgents \/ Len(agents') = Len(BuiltinAgents) + 1
          /\ \E i \in Slots : reqs[i].pc = "auth" /\ Has(reqs'[i].stages, "router")]_vars

\* C25 witness: a route handler runs for a request that came after the one
\* that initialized the registry, and a custom agent is registered.
C25_Witness ==
  \E i \in Slots :
    /\ served >= 2
    /\ reqs[i].stages /= <<>>
    /\ Last(reqs[i].stages) \in Handlers
    /\ Initialized(agents, agentConfigs)
    /\ Len(agents) > Len(BuiltinAgents)

\* C26: a request that the rate limiter admits takes one point of its key's
\* window whatever its credentials, and the API key check gives no point
\* back; so a request with the valid key that comes when the window holds
\* `points` admitted requests is answered 429 and not served, also when all
\* of those were answered 401.
C26_PointBeforeAuth ==
  [][\A i \in Slots :
          LET k == RateKey(reqs[i].rq) IN
          /\ (reqs[i].pc = "rate" /\ reqs'[i].pc = "auth") =>
               /\ storage'[k].value = storage[k].value + 1
               /\ storage'[k].value = admitted'[k]
          /\ (reqs[i].pc = "auth" /\ reqs'[i].pc /= "auth") => storage' = storage
          /\ (reqs[i].pc = "rate" /\ reqs'[i].pc /= "rate" /\ admitted[k] = points) =>
               /\ reqs'[i].res = <<Response(429, "rate_limit_exceeded")>>
               /\ reqs'[i].pc = "done"
               /\ ~Has(reqs'[i].stages, "apiKey")]_vars

\* C26 witness: no request has passed the API key check yet, the window of a
\* key holds `points` admitted requests, all answered 401, and a request of
\* that key with the valid key is answered 429.
C26_Witness ==
  \E i \in Slots :
    /\ agents = <<>>
    /\ admitted[RateKey(reqs[i].rq)] = points
    /\ AuthOK(reqs[i].rq, API_KEY)
    /\ reqs[i].rq.method /= "OPTIONS"
    /\ reqs[i].res = <<Response(429, "rate_limit_exceeded")>>

\* C27: the registry only grows: no step removes an identifier from either
\* map; so the quick-chat handler finds the coordinator whenever it runs and
\* no request is answered coordinator_not_available.
C27_OnlyGrows ==
  /\ [][/\ MapKeys(agents) \subseteq MapKeys(agents')
        /\ MapKeys(agentConfigs) \subseteq MapKeys(agentConfigs')
        /\ \A i \in Slots :
             (reqs[i].pc = "auth" /\ Has(reqs'[i].stages, "handleQuickChat")) =>
               /\ MapHas(agents', "coordinator")
               /\ MapGet(agents', "coordinator").name = "Coordinator"]_vars
  /\ [](\A i \in Slots : "coordinator_not_available" \notin ErrorsOf(reqs[i]))

\* C27 witness: a quick chat was answered by the coordinator after a custom
\* agent had been registered.
C27_Witness ==
  \E i \in Slots :
    /\ IsQuickChat(reqs[i])
    /\ reqs[i].outcome = "resolved"
    /\ created /= {}
    /\ Len(agents) > Len(BuiltinAgents)

\* C28: a request that reached the rate-limiting stage is answered once: it
\* never has more than one response; when its invocation is over it has
\* either one JSON response and no event stream, or one event stream that is
\* closed, after an end or an error event; nothing is written after that; it
\* has no response before its handler ran unless a gateway stage rejected it;
\* and once the generation has resolved or rejected the response is complete.
C28_OneResponse ==
  /\ [](\A i \in Slots :
          LET st == reqs[i] IN
          Has(st.stages, "rateLimiter") =>
            /\ Len(st.res) <= 1
            /\ \A n \in 1..Len(st.res) : st.res[n].kind \in {"json", "stream"}
            /\ st.pc \in {"rate", "auth", "run", "done"}
            /\ st.pc \in {"rate", "auth"} => st.res = <<>>
            /\ st.pc = "run" =>
                 /\ ~st.closed
                 /\ st.outcome = ""
                 /\ IF Last(st.gen).stream
                    THEN st.res = <<[kind |-> "stream", status |-> 200, error |-> ""]>>
                    ELSE st.res = <<>> /\ st.events = <<>>
            /\ st.pc = "done" =>
                 /\ Len(st.res) = 1
                 /\ IF st.res[1].kind = "json"
                    THEN st.events = <<>> /\ ~st.closed
                    ELSE /\ st.closed
                         /\ st.events /= <<>>
                         /\ Last(st.events).type \in {"end", "error"}
                         /\ Cardinality({n \in 1..Len(st.events) :
                                           st.events[n].type \in {"end", "error"}}) = 1
            /\ st.outcome /= "" => st.pc = "done")
  /\ [][\A i \in Slots :
          reqs[i].pc = "done" => (reqs'[i] = reqs[i] \/ reqs'[i] = Fresh(NoRequest))]_vars

\* C28 witness: a request was answered 400 by its handler, one response.
C28_Witness ==
  \E i \in Slots :
    /\ Has(reqs[i].stages, "handleChat")
    /\ reqs[i].res = <<Response(400, "validation_error")>>
    /\ reqs[i].pc = "done"

\* C29: when no secret is configured (API_KEY not set, or empty), every request
\* is rejected with 401 whatever credential headers it carries, and no route
\* handler ever executes.
C29_AlwaysRejected401 ==
  \A i \in Slots :
    (~Truthy(API_KEY) /\ Answered(reqs[i])) =>
      /\ reqs[i].res = <<Response(401, "unauthorized")>>
      /\ ~Has(reqs[i].stages, "router")

\* C29, amended: when no secret is configured (API_KEY not set, or empty), no
\* request reaches the router or a route handler, whatever credential headers
\* it carries, and the registry is never initialised; a request is rejected
\* with 401 unauthorized once it reaches the API key stage, and is answered
\* before that stage only by the rate limiter (429) or by the CORS stage (the
\* preflight answer to an OPTIONS request).
C29_FailsClosed ==
  [](~Truthy(API_KEY) =>
       /\ agents = <<>> /\ agentConfigs = <<>>
       /\ \A i \in Slots :
            LET st == reqs[i] IN
            st.pc /= "idle" =>
              /\ \A n \in 1..Len(st.stages) :
                   st.stages[n] \in {"helmet", "cors", "rateLimiter", "apiKey"}
              /\ st.gen = <<>>
              /\ st.pc \in {"rate", "auth", "done", "hung"}
              /\ Has(st.stages, "apiKey") =>
                   (st.pc = "done" /\ st.res = <<Response(401, "unauthorized")>>)
              /\ (Answered(st) /\ ~Has(st.stages, "apiKey")) =>
                   \/ st.res = <<Response(429, "rate_limit_exceeded")>>
                   \/ st.rq.method = "OPTIONS" /\ Last(st.stages) = "cors"
                        /\ st.res = <<[kind |-> "end", status |-> 200, error |-> ""]>>)

\* C29 witness: in a gateway that validateEnvironment would refuse for its
\* API_KEY, a request whose x-api-key header is the empty string, or which
\* carries a credential, was rejected with 401 at the API key stage.
C29_Witness ==
  \E i \in Slots :
    /\ "API_KEY" \in validateEnvironment(<<"k">>, API_KEY)
    /\ reqs[i].pc = "done"
    /\ reqs[i].rq.xApiKey /= Undefined
    /\ Last(reqs[i].stages) = "apiKey"
    /\ reqs[i].res = <<Response(401, "unauthorized")>>

\* what a reply reports, as pollRunCompletion reads it
Completed(r) == r.kind = "json" /\ r.success /\ r.hasData /\ r.status = "completed"
Ended(r) ==
  r.kind = "json" /\ r.success /\ r.hasData /\ r.status \in {"failed", "cancelled", "expired"}
\* a reply that reports neither
OtherReply(r) == r.kind /= "rejected" /\ ~Completed(r) /\ ~Ended(r)
\* a fetch that failed, a reply whose body is not JSON, a reply that sets
\* success and has no data
Unreadable(r) == r.kind \in {"rejected", "text"} \/ (r.success /\ ~r.hasData)
Settled == poll.pc \in {"returned", "thrown"}
Timeout == poll.pc = "thrown" /\ poll.error = <<"Run polling timeout">>

====
